---------------------------- MODULE Spec2Model ----------------------------
(***************************************************************************)
(* DUKPT key derivation (src/dukpt.py): the counter codec, the initial key *)
(* derivation of the Server, the future key derivation shared by Server    *)
(* and Client, and the Server and Client objects with their mutable fields.*)
(*                                                                         *)
(* A BitArray and a Python 2 byte string are both modelled as a sequence   *)
(* of bits (0 or 1), most significant bit first; a byte string is a bit    *)
(* sequence whose length is a multiple of 8.  None is the empty sequence   *)
(* where the code only tests truthiness.                                   *)
(***************************************************************************)
EXTENDS Integers, Sequences, FiniteSets, TLC

VARIABLES
    server,     \* the Server object: its fields and whether __init__ succeeded
    client,     \* the Client object: its fields and whether __init__ succeeded
    last,       \* the last completed call: operation, argument, outcome, return value
    calls,      \* number of calls made so far (bounded by MaxCalls)
    threads,    \* concurrent callers of Server.gen_key: position, argument, locals
    regs,       \* registers of one derive_key run, one loop iteration at a time
    codec       \* one reset_counter call: its input and its result

vars == <<server, client, last, calls, threads, regs, codec>>

-----------------------------------------------------------------------------
(* Bit strings *)

BDK_LEN == 16
KSN_LEN == 10

None == <<>>

Pow2(n) == 2 ^ n

\* a bit string given by a rule, as a sequence
Seq1(f) == f \o <<>>

\* one byte (0..255) as 8 bits, most significant first
ByteBits(b) == Seq1([i \in 1..8 |-> (b \div Pow2(8 - i)) % 2])

RECURSIVE FromBytes(_)
\* BitArray(bytes=...) / BitArray(hex=...) of a list of byte values
FromBytes(bs) ==
    IF bs = <<>> THEN <<>> ELSE ByteBits(Head(bs)) \o FromBytes(Tail(bs))

Zeros(n) == Seq1([i \in 1..n |-> 0])

\* len() of a byte string
ByteLen(s) == Len(s) \div 8

\* unsigned value of a bit string (BitArray.uint)
RECURSIVE UInt(_)
UInt(s) ==
    IF s = <<>> THEN 0 ELSE 2 * UInt(SubSeq(s, 1, Len(s) - 1)) + s[Len(s)]

\* n-bit two's complement / unsigned encoding of v (v taken modulo 2^n)
Bits(v, n) == Seq1([i \in 1..n |-> ((v % Pow2(n)) \div Pow2(n - i)) % 2])

\* BitArray.int: the bit string read as a signed two's complement integer
SInt(s) == IF s[1] = 1 THEN UInt(s) - Pow2(Len(s)) ELSE UInt(s)

\* bitstring's &, | and ^ on operands of equal length
BitAnd(a, b) == Seq1([i \in 1..Len(a) |-> a[i] * b[i]])
BitOr(a, b)  == Seq1([i \in 1..Len(a) |-> IF a[i] + b[i] > 0 THEN 1 ELSE 0])
BitXor(a, b) == Seq1([i \in 1..Len(a) |-> (a[i] + b[i]) % 2])

\* sr >>= 1 : logical shift right by one, the length kept
ShiftRight(s) == Seq1([i \in 1..Len(s) |-> IF i = 1 THEN 0 ELSE s[i - 1]])

\* bool(BitArray) in bitstring 3.x, and the != '\x00' byte tests: any bit set
AnySet(s) == \E i \in 1..Len(s) : s[i] = 1

\* Python slices on byte strings
First(s, nbytes)  == SubSeq(s, 1, 8 * nbytes)                 \* s[:n], n <= len(s)
DropFirst(s, nbytes) == SubSeq(s, 8 * nbytes + 1, Len(s))     \* s[n:]
LastBytes(s, nbytes) == SubSeq(s, Len(s) - 8 * nbytes + 1, Len(s))   \* s[-n:]
DropLast(s, nbytes)  == SubSeq(s, 1, Len(s) - 8 * nbytes)            \* s[:-n]

-----------------------------------------------------------------------------
(* The block cipher (Crypto.Cipher.DES / DES3, ECB, one 8-byte block).      *)
(* The library is an external collaborator; it is modelled by a keyed      *)
(* permutation of 64-bit blocks with DES's shape: a Feistel network over   *)
(* two 32-bit halves that ignores the parity bit of every key byte, and    *)
(* triple encryption as encrypt-decrypt-encrypt under three 8-byte keys.   *)

Rounds == 3

\* the 56 key bits DES uses: every eighth bit (the parity bit) is dropped
KeyBits(key) == Seq1([i \in 1..56 |-> key[i + ((i - 1) \div 7)]])

\* the 32-bit subkey of round j
SubKey(key, j) == LET kb == KeyBits(key)
                  IN  Seq1([i \in 1..32 |-> kb[((i + 11 * j) % 56) + 1]])

Rot32(i, d) == ((i - 1 + d) % 32) + 1

\* the (non-linear) round function
Feistel(r, k) ==
    Seq1([i \in 1..32 |-> (r[Rot32(i, 1)] * r[Rot32(i, 7)] + r[Rot32(i, 3)]
                            + r[i] * k[Rot32(i, 5)] + k[i]) % 2])

RECURSIVE EncRounds(_, _, _, _)
EncRounds(l, r, key, j) ==
    IF j > Rounds THEN l \o r
    ELSE EncRounds(r, BitXor(l, Feistel(r, SubKey(key, j))), key, j + 1)

RECURSIVE DecRounds(_, _, _, _)
DecRounds(l, r, key, j) ==
    IF j < 1 THEN l \o r
    ELSE DecRounds(BitXor(r, Feistel(l, SubKey(key, j))), l, key, j - 1)

\* DES.new(key, DES.MODE_ECB).encrypt(block)
DES_encrypt(key, block) ==
    EncRounds(SubSeq(block, 1, 32), SubSeq(block, 33, 64), key, 1)

DES_decrypt(key, block) ==
    DecRounds(SubSeq(block, 1, 32), SubSeq(block, 33, 64), key, Rounds)

\* DES3.new(key, DES3.MODE_ECB).encrypt(block), key of 24 bytes
DES3_encrypt(key, block) ==
    DES_encrypt(SubSeq(key, 129, 192),
                DES_decrypt(SubSeq(key, 65, 128),
                            DES_encrypt(SubSeq(key, 1, 64), block)))

-----------------------------------------------------------------------------
(* Counter codec (class DUKPT) *)

\* reset_counter with the mask of copy_counter: the top 3 bits are zeroed
reset_counter_top(data) ==
    IF ByteLen(data) < 3 THEN None
    ELSE DropLast(data, 3) \o BitAnd(FromBytes(<<31, 255, 255>>), LastBytes(data, 3))

\* reset_counter(data): None for fewer than 3 bytes, else the data with the
\* final 3-byte field and-ed with 0xe00000
reset_counter(data) ==
    IF ByteLen(data) < 3 THEN None
    ELSE LET mask == FromBytes(<<224, 0, 0>>)
             ctr  == SubSeq(data, Len(data) - 23, Len(data))
         IN  DropLast(data, 3) \o BitAnd(mask, ctr)

\* copy_counter(data): the final 3 bytes (or the data itself when it has no
\* more than 3 bytes) and-ed with 0x1fffff
copy_counter(data) ==
    LET mask == FromBytes(<<31, 255, 255>>)
        ctr  == IF ByteLen(data) > 3 THEN LastBytes(data, 3) ELSE data
    IN  BitAnd(mask, ctr)

\* BitArray(int=v, length=21): bitstring raises CreationError when v does not
\* fit a signed 21-bit integer
IntFits21(v) == -Pow2(20) <= v /\ v < Pow2(20)

\* increase_counter on a stored ksn: the exception raised (if any) and the ksn
\* afterwards.  The 21 bits from bit 59 are read with .int (signed), one is
\* added, and the 21-bit signed encoding of the sum is written back at bit 59.
increase_counter(ksn) ==
    LET ctr == SInt(SubSeq(ksn, 60, 80)) + 1
    IN  IF IntFits21(ctr)
        THEN [exc |-> "None",
              ksn |-> SubSeq(ksn, 1, 59) \o Bits(ctr, 21) \o SubSeq(ksn, 81, Len(ksn))]
        ELSE [exc |-> "CreationError", ksn |-> ksn]

-----------------------------------------------------------------------------
(* Future key derivation: DUKPT.derive_key, one loop iteration at a time *)

c_mask == FromBytes(<<192, 192, 192, 192, 0, 0, 0, 0, 192, 192, 192, 192, 0, 0, 0, 0>>)

\* Step 7 with the value r8 had before Step 2
Step7_pre(curkey, r8_pre, r8) == BitXor(DropFirst(curkey, 8), r8_pre)

\* Step 7 of the loop body: the XOR operand of the R8b branch.  r8_pre is the
\* value r8 had when the iteration began, r8 its value after Step 2.
Step7(curkey, r8_pre, r8) == BitXor(DropFirst(curkey, 8), r8)

\* the registers when the loop is entered (lines 58-62)
DeriveInit(ipek, ksn) ==
    LET ksnr == DropFirst(ksn, 2)
    IN  [curkey |-> ipek,
         r3     |-> copy_counter(ksnr),
         r8     |-> reset_counter(ksnr),
         sr     |-> FromBytes(<<16, 0, 0>>),
         exc    |-> "None",
         mixed  |-> FALSE,      \* did the last iteration run Steps 2-11
         key_in |-> None,       \* curkey when that iteration began
         r8_pre |-> None,       \* r8 when that iteration began
         variant |-> None,      \* curkey after Step 6
         r8a_in |-> None,       \* the block encrypted in Step 4
         r8b_in |-> None]       \* the block encrypted in Step 8

\* the while condition (line 64)
LoopCond(g) == g.exc = "None" /\ AnySet(g.sr)

\* Steps 2-11 (lines 69-96); a ^ of operands of different lengths raises ValueError
MixStep(g) ==
    LET n_ctr  == BitOr(LastBytes(g.r8, 3), g.sr)
        r8     == DropLast(g.r8, 3) \o n_ctr
        right  == DropFirst(g.curkey, 8)
    IN  IF Len(right) # Len(r8)
        THEN [g EXCEPT !.exc = "ValueError", !.r8 = r8]
        ELSE LET r8a1   == BitXor(r8, right)
                 r8a2   == DES_encrypt(First(g.curkey, 8), r8a1)
                 r8a3   == BitXor(right, r8a2)
                 curkey == BitXor(g.curkey, c_mask)
                 r8b1   == Step7(curkey, g.r8, r8)
                 r8b2   == DES_encrypt(First(curkey, 8), r8b1)
                 r8b3   == BitXor(DropFirst(curkey, 8), r8b2)
             IN  [g EXCEPT !.curkey = r8b3 \o r8a3, !.r8 = r8, !.mixed = TRUE,
                           !.key_in = g.curkey, !.r8_pre = g.r8,
                           !.variant = curkey, !.r8a_in = r8a1, !.r8b_in = r8b1]

\* one iteration of the while loop (lines 65-98)
DeriveStep(g) ==
    LET tmp == BitAnd(copy_counter(g.sr), g.r3)
        h   == IF AnySet(tmp) THEN MixStep(g) ELSE [g EXCEPT !.mixed = FALSE]
    IN  IF h.exc = "None" THEN [h EXCEPT !.sr = ShiftRight(g.sr)] ELSE h

RECURSIVE DeriveLoop(_)
DeriveLoop(g) == IF LoopCond(g) THEN DeriveLoop(DeriveStep(g)) ELSE g

\* derive_key(self, ipek, ksn): the exception raised (if any), the key
\* returned, and the object afterwards (self._cur_key is set on return)
derive_key(self, ipek, ksn) ==
    LET g == DeriveLoop(DeriveInit(ipek, ksn))
    IN  IF g.exc = "None"
        THEN [exc |-> "None", ret |-> g.curkey, self |-> [self EXCEPT !.cur_key = g.curkey]]
        ELSE [exc |-> g.exc, ret |-> None, self |-> self]

-----------------------------------------------------------------------------
(* Objects.  Server and Client are DUKPT objects: the fields are the class *)
(* attributes _bdk, _ipek, _ksn, _tdes_key, _cur_key and the Server's bdk; *)
(* status is "new" before __init__, "ok" after it returned, and the name   *)
(* of the exception when it raised.                                        *)

NewObject ==
    [status |-> "new", bdk |-> None, pub_bdk |-> None, ipek |-> None,
     ksn |-> None, tdes_key |-> None, cur_key |-> None]

\* DUKPT.__init__(self, bdk, ksn, ipek); an absent argument is None
DUKPT_init(self, bdk, ksn, ipek) ==
    IF AnySet(ipek)
    THEN [self EXCEPT !.status = "ok", !.ipek = ipek, !.ksn = ksn]
    ELSE IF bdk = None
         THEN [self EXCEPT !.status = "InvalidDUKPTArguments"]
         ELSE IF ByteLen(bdk) # BDK_LEN
              THEN [self EXCEPT !.status = "InvalidDUKPTArguments"]
              ELSE [self EXCEPT !.status = "ok", !.bdk = bdk]

\* Server.__init__(self, bdk); random is what generate_bdk() would draw
Server_init(self, bdk, random) ==
    IF bdk # None
    THEN DUKPT_init(self, bdk, None, None)
    ELSE DUKPT_init([self EXCEPT !.pub_bdk = random], random, None, None)

\* Server.generate_ksn(); random is what get_random_bytes(KSN_LEN) draws
generate_ksn(random) == reset_counter(First(random, KSN_LEN))

\* generate_left_ipek that keeps the left half of an _ipek already stored
generate_left_ipek_stale(self, ksn) ==
    IF self.ipek # None
    THEN [self EXCEPT !.ipek = First(self.ipek, 8)]
    ELSE [self EXCEPT !.ipek = DES3_encrypt(self.tdes_key, First(reset_counter(ksn), 8))]

\* generate_left_ipek(self, ksn): the object afterwards
generate_left_ipek(self, ksn) ==
    LET k == reset_counter(ksn)
    IN  [self EXCEPT !.ipek = DES3_encrypt(self.tdes_key, First(k, 8))]

ipek_mask == FromBytes(<<192, 192, 192, 192, 0, 0, 0, 0, 192, 192, 192, 192, 0, 0, 0, 0,
                         192, 192, 192, 192, 0, 0, 0, 0>>)

\* generate_right_ipek(self, ksn): the object afterwards
generate_right_ipek(self, ksn) ==
    LET key == BitXor(ipek_mask, self.tdes_key)
    IN  [self EXCEPT !.ipek = self.ipek \o DES3_encrypt(key, First(ksn, 8))]

\* line 173 of generate_ipek: the triple-length key
set_tdes_key(self) == [self EXCEPT !.tdes_key = self.bdk \o First(self.bdk, 8)]

\* generate_ipek(self, ksn): the value returned and the object afterwards
generate_ipek(self, ksn) ==
    LET s == generate_right_ipek(generate_left_ipek(set_tdes_key(self), ksn), ksn)
    IN  [ret |-> s.ipek, self |-> s]

\* Server.gen_key(self, ksn)
Server_gen_key(self, ksn) ==
    LET i == generate_ipek(self, ksn)
    IN  derive_key(i.self, i.ret, ksn)

\* Client.__init__(self, ipek, ksn)
Client_init(self, ipek, ksn) ==
    LET s == DUKPT_init(self, None, ksn, ipek)
    IN  IF s.status # "ok" THEN s
        ELSE LET n == increase_counter(s.ksn)
             IN  IF n.exc = "None" THEN [s EXCEPT !.ksn = n.ksn]
                 ELSE [s EXCEPT !.status = n.exc]

\* Client.gen_key(self): the exception raised (if any), the info returned and
\* the object afterwards
Client_gen_key(self) ==
    LET d == derive_key(self, self.ipek, self.ksn)
    IN  IF d.exc # "None" THEN [exc |-> d.exc, ksn |-> None, key |-> None, self |-> d.self]
        ELSE LET n == increase_counter(d.self.ksn)
             IN  IF n.exc # "None"
                 THEN [exc |-> n.exc, ksn |-> None, key |-> None, self |-> d.self]
                 ELSE [exc |-> "None", ksn |-> self.ksn, key |-> d.ret,
                       self |-> [d.self EXCEPT !.ksn = n.ksn]]

-----------------------------------------------------------------------------
(* Inputs *)

\* the published test root secret 0123456789ABCDEFFEDCBA9876543210
TestBdk == FromBytes(<<1, 35, 69, 103, 137, 171, 205, 239, 254, 220, 186, 152, 118, 84, 50, 16>>)

\* the published test serial FFFF9876543210E00000 and a second device
TestKsn  == FromBytes(<<255, 255, 152, 118, 84, 50, 16, 224, 0, 0>>)
OtherKsn == FromBytes(<<18, 52, 86, 120, 154, 188, 222, 64, 0, 0>>)

\* a serial of the given device with the given 21-bit counter
Serial(dev, ctr) == SubSeq(dev, 1, 59) \o Bits(ctr, 21)

\* the 21-bit counter field of a serial, as an unsigned number
Counter(ksn) == UInt(SubSeq(ksn, 60, 80))

\* a second root secret, and what the random source may return
SecondBdk == FromBytes(<<254, 220, 186, 152, 118, 84, 50, 16, 1, 35, 69, 103, 137, 171, 205, 239>>)
ZeroBdk   == Zeros(8 * BDK_LEN)
RandomBdk == FromBytes(<<165, 90, 60, 195, 15, 240, 17, 34, 51, 68, 85, 102, 119, 136, 153, 170>>)
RandomKsn == FromBytes(<<202, 254, 186, 190, 222, 173, 190, 239, 250, 206>>)

\* the record of a completed call
Call(op, arg, exc, ret) ==
    [op |-> op, arg |-> arg, given |-> TRUE, exc |-> exc, ret |-> ret,
     ksn |-> None, before |-> None]

NoCall == Call("none", None, "None", None)

\* a constructed Server holding root secret b
ServerOf(b) == Server_init(NewObject, b, RandomBdk)

-----------------------------------------------------------------------------
(* The Client: provisioning, gen_key and increase_counter, one caller *)

MaxCalls == 3

\* Counter values a device is (re)started at.  Client(ipek, ksn) accepts a
\* serial with any counter; a Client started at counter k is in the state a
\* Client started at 0 is in after k - 1 successful gen_key calls, since
\* gen_key changes nothing but the counter (and _cur_key, which it rewrites).
StartCounters ==
    {0, Pow2(16) - 2, Pow2(20) - 3, Pow2(20) - 1, Pow2(20), Pow2(21) - 3, Pow2(21) - 1}

ClientBdks == {TestBdk, SecondBdk}
Devices    == {TestKsn, OtherKsn}

ClientSpecInit ==
    /\ server \in {ServerOf(b) : b \in ClientBdks}
    /\ client = NewObject
    /\ last = NoCall
    /\ calls = 0
    /\ threads = None /\ regs = None /\ codec = None

\* example.py lines 10-15: ipek = server.generate_ipek(s0) for the device's
\* serial s0 with counter zero, then Client(ipek, ksn)
Provision(dev, k) ==
    /\ client.status = "new"
    /\ LET i == generate_ipek(server, Serial(dev, 0))
           c == Client_init(client, i.ret, Serial(dev, k))
       IN  /\ server' = i.self
           /\ client' = c
           /\ last' = Call("Client", Serial(dev, k),
                           IF c.status = "ok" THEN "None" ELSE c.status, None)
    /\ UNCHANGED <<calls, threads, regs, codec>>

\* info = client.gen_key()
ClientGenKey ==
    /\ client.status = "ok"
    /\ calls < MaxCalls
    /\ LET r == Client_gen_key(client)
       IN  /\ client' = r.self
           /\ last' = [Call("gen_key", client.ksn, r.exc, r.key) EXCEPT !.ksn = r.ksn]
    /\ calls' = calls + 1
    /\ UNCHANGED <<server, threads, regs, codec>>

\* client.increase_counter()
IncreaseCounter ==
    /\ client.status = "ok"
    /\ calls < MaxCalls
    /\ LET n == increase_counter(client.ksn)
       IN  /\ client' = [client EXCEPT !.ksn = n.ksn]
           /\ last' = Call("increase_counter", client.ksn, n.exc, None)
    /\ calls' = calls + 1
    /\ UNCHANGED <<server, threads, regs, codec>>

ClientNext ==
    \/ \E dev \in Devices, k \in StartCounters : Provision(dev, k)
    \/ ClientGenKey
    \/ IncreaseCounter

ClientSpec == ClientSpecInit /\ [][ClientNext]_vars

\* C1: every {ksn, key} a successful Client.gen_key() returns satisfies
\* Server.gen_key(ksn) == key, the Client having been provisioned with
\* generate_ipek of its serial with counter zero.
\* (Stated for the counter values below 2^20, which a Client started at
\* counter zero does reach.)
C1_ServerDerivesClientKey ==
    (last.op = "gen_key" /\ last.exc = "None" /\ Counter(last.ksn) < Pow2(20))
        => LET k == Server_gen_key(server, last.ksn)
           IN  k.exc = "None" /\ k.ret = last.ret

\* C2: of two consecutive successful gen_key() calls of one caller, the second
\* returns the counter the first returned plus one.
C2_CounterAdvancesByOne ==
    [][(/\ last.op = "gen_key" /\ last.exc = "None"
        /\ last'.op = "gen_key" /\ last'.exc = "None"
        /\ calls' = calls + 1)
           => Counter(last'.ksn) = Counter(last.ksn) + 1]_vars

\* C3: with the stored counter at 2^21 - 1, increase_counter, and the gen_key
\* or the construction that calls it, fails with an error and leaves the
\* stored serial unchanged.
C3_OverflowIsSurfaced ==
    (last.op \in {"Client", "gen_key", "increase_counter"}
       /\ Counter(last.arg) = Pow2(21) - 1)
        => (last.exc # "None" /\ client.ksn = last.arg)

\* C8: for every counter c < 2^21 - 1, increase_counter completes without
\* error, the field then holds c + 1 and bits 0..58 are unchanged.
C8_IncrementIsUnsigned ==
    (last.op = "increase_counter" /\ Counter(last.arg) < Pow2(21) - 1)
        => /\ last.exc = "None"
           /\ Counter(client.ksn) = Counter(last.arg) + 1
           /\ SubSeq(client.ksn, 1, 59) = SubSeq(last.arg, 1, 59)

-----------------------------------------------------------------------------
(* The Server, one caller: construction, then calls in any order *)

MaxServerCalls == 3

\* what a caller may pass as bdk: nothing, or a byte string of 0, 15, 16 or
\* 17 bytes
CtorArgs ==
    {[given |-> FALSE, val |-> None]} \cup
    {[given |-> TRUE, val |-> v] :
        v \in {None, SubSeq(TestBdk, 1, 8 * (BDK_LEN - 1)), TestBdk, ZeroBdk,
               TestBdk \o ByteBits(255)}}

\* the serials the Server is asked about: one device at three counter
\* values, and a second device
ServerKsns ==
    {Serial(TestKsn, 0), Serial(TestKsn, 5), Serial(TestKsn, Pow2(16)), Serial(OtherKsn, 1)}

ServerSpecInit ==
    /\ server = NewObject
    /\ client = None
    /\ last = NoCall
    /\ calls = 0
    /\ threads = None /\ regs = None /\ codec = None

\* server = Server(bdk) or Server()
ServerInit(a) ==
    /\ server.status = "new"
    /\ LET s == Server_init(server, a.val, RandomBdk)
       IN  /\ server' = s
           /\ last' = [Call("Server", a.val,
                            IF s.status = "ok" THEN "None" ELSE s.status, None)
                       EXCEPT !.given = a.given]
    /\ UNCHANGED <<client, calls, threads, regs, codec>>

\* server.generate_ksn()
GenerateKsn ==
    /\ server.status = "ok"
    /\ calls < MaxServerCalls
    /\ last' = Call("generate_ksn", None, "None", generate_ksn(RandomKsn))
    /\ calls' = calls + 1
    /\ UNCHANGED <<server, client, threads, regs, codec>>

\* server.generate_ipek(ksn)
GenerateIpek(ksn) ==
    /\ server.status = "ok"
    /\ calls < MaxServerCalls
    /\ LET i == generate_ipek(server, ksn)
       IN  /\ server' = i.self
           /\ last' = [Call("generate_ipek", ksn, "None", i.ret)
                       EXCEPT !.before = server.ipek]
    /\ calls' = calls + 1
    /\ UNCHANGED <<client, threads, regs, codec>>

\* server.derive_key(ipek, ksn), with the ipek the Server last generated
DeriveKey(ksn) ==
    /\ server.status = "ok"
    /\ server.ipek # None
    /\ calls < MaxServerCalls
    /\ LET d == derive_key(server, server.ipek, ksn)
       IN  /\ server' = d.self
           /\ last' = [Call("derive_key", ksn, d.exc, d.ret)
                       EXCEPT !.before = server.ipek]
    /\ calls' = calls + 1
    /\ UNCHANGED <<client, threads, regs, codec>>

\* server.gen_key(ksn)
GenKey(ksn) ==
    /\ server.status = "ok"
    /\ calls < MaxServerCalls
    /\ LET d == Server_gen_key(server, ksn)
       IN  /\ server' = d.self
           /\ last' = [Call("gen_key", ksn, d.exc, d.ret)
                       EXCEPT !.before = server.ipek]
    /\ calls' = calls + 1
    /\ UNCHANGED <<client, threads, regs, codec>>

ServerNext ==
    \/ \E a \in CtorArgs : ServerInit(a)
    \/ GenerateKsn
    \/ \E ksn \in ServerKsns : GenerateIpek(ksn)
    \/ \E ksn \in ServerKsns : DeriveKey(ksn)
    \/ \E ksn \in ServerKsns : GenKey(ksn)

ServerSpec == ServerSpecInit /\ [][ServerNext]_vars

\* C4: for two serials that differ only in the 21 counter bits,
\* generate_ipek returns the same InitialKey.
C4_IpekIgnoresCounter ==
    [][(/\ last.op = "generate_ipek" /\ last'.op = "generate_ipek"
        /\ calls' = calls + 1
        /\ SubSeq(last'.arg, 1, 59) = SubSeq(last.arg, 1, 59))
           => last'.ret = last.ret]_vars

\* C6: whatever calls came before, gen_key(s) returns the key a Server
\* freshly constructed with the same root secret returns for s, and no call
\* changes the stored root secret.
C6_ServerIsStateless ==
    [][/\ (server.status = "ok" => server'.bdk = server.bdk)
       /\ (last'.op = "gen_key" /\ calls' = calls + 1)
             => /\ last'.exc = "None"
                /\ last'.ret = Server_gen_key(ServerOf(server.bdk), last'.arg).ret]_vars

\* gen_key has run on a Server whose _ipek still held the InitialKey of
\* another serial, left there by an earlier call
C6_Witness ==
    /\ last.op = "gen_key"
    /\ calls >= 2
    /\ last.before # None
    /\ last.before # server.ipek
    /\ last.ret = server.cur_key

\* C7: a supplied root secret of exactly 16 bytes is accepted and stored
\* unchanged; a supplied one of any other length, the empty byte string
\* included, fails with the invalid-argument error.
C7_BdkLengthIsValidated ==
    (last.op = "Server" /\ last.given)
        => IF ByteLen(last.arg) = BDK_LEN
           THEN server.status = "ok" /\ server.bdk = last.arg
           ELSE server.status = "InvalidDUKPTArguments" /\ last.exc = "InvalidDUKPTArguments"

-----------------------------------------------------------------------------
(* Concurrent callers of Server.gen_key on one Server object.  Each caller *)
(* runs gen_key's method calls in program order; the callers' method calls *)
(* interleave, and all of them read and write the object's fields.         *)

NThreads == 2

Threads == 1..NThreads

ConcKsns == {Serial(TestKsn, 1), Serial(TestKsn, 2), Serial(OtherKsn, 1)}

IdleThread == [pc |-> "idle", arg |-> None, ipek |-> None, exc |-> "None", key |-> None]

ConcSpecInit ==
    /\ server = ServerOf(TestBdk)
    /\ threads = [t \in Threads |-> IdleThread]
    /\ client = None /\ last = None /\ calls = 0
    /\ regs = None /\ codec = None

\* a caller enters gen_key(ksn), with a serial no other caller has passed
T_Call(t, ksn) ==
    /\ threads[t].pc = "idle"
    /\ \A u \in Threads : threads[u].arg # ksn
    /\ threads' = [threads EXCEPT ![t].pc = "tdes", ![t].arg = ksn]
    /\ UNCHANGED <<server, client, last, calls, regs, codec>>

\* generate_ipek, line 173
T_SetTdesKey(t) ==
    /\ threads[t].pc = "tdes"
    /\ server' = set_tdes_key(server)
    /\ threads' = [threads EXCEPT ![t].pc = "left"]
    /\ UNCHANGED <<client, last, calls, regs, codec>>

\* generate_ipek, line 174
T_Left(t) ==
    /\ threads[t].pc = "left"
    /\ server' = generate_left_ipek(server, threads[t].arg)
    /\ threads' = [threads EXCEPT ![t].pc = "right"]
    /\ UNCHANGED <<client, last, calls, regs, codec>>

\* generate_ipek, line 175
T_Right(t) ==
    /\ threads[t].pc = "right"
    /\ server' = generate_right_ipek(server, threads[t].arg)
    /\ threads' = [threads EXCEPT ![t].pc = "return"]
    /\ UNCHANGED <<client, last, calls, regs, codec>>

\* generate_ipek, line 176, and the assignment of line 208
T_ReturnIpek(t) ==
    /\ threads[t].pc = "return"
    /\ threads' = [threads EXCEPT ![t].pc = "derive", ![t].ipek = server.ipek]
    /\ UNCHANGED <<server, client, last, calls, regs, codec>>

\* gen_key, lines 209-210
T_DeriveKey(t) ==
    /\ threads[t].pc = "derive"
    /\ LET d == derive_key(server, threads[t].ipek, threads[t].arg)
       IN  /\ server' = d.self
           /\ threads' = [threads EXCEPT ![t].pc = "done", ![t].exc = d.exc,
                                         ![t].key = d.ret]
    /\ UNCHANGED <<client, last, calls, regs, codec>>

ConcNext ==
    \E t \in Threads :
        \/ \E ksn \in ConcKsns : T_Call(t, ksn)
        \/ T_SetTdesKey(t)
        \/ T_Left(t)
        \/ T_Right(t)
        \/ T_ReturnIpek(t)
        \/ T_DeriveKey(t)

ConcSpec == ConcSpecInit /\ [][ConcNext]_vars

\* C5: each of the concurrent callers of gen_key receives the key gen_key
\* returns for its serial when run alone.
C5_ConcurrentCallersGetTheirKey ==
    \A t \in Threads :
        threads[t].pc = "done"
            => /\ threads[t].exc = "None"
               /\ threads[t].key = Server_gen_key(ServerOf(server.bdk), threads[t].arg).ret

-----------------------------------------------------------------------------
(* One derive_key call, one iteration of its while loop per step *)

\* the target counter values: single bits, neighbouring bits, the extremes
DeriveCounters == {1, 2, 3, 6, Pow2(16), Pow2(16) + 1, Pow2(20) - 1, Pow2(20), Pow2(21) - 1}

DeriveSpecInit ==
    /\ \E dev \in Devices, c \in DeriveCounters :
          regs = DeriveInit(generate_ipek(ServerOf(TestBdk), Serial(dev, 0)).ret,
                            Serial(dev, c))
    /\ server = None /\ client = None /\ last = None /\ calls = 0
    /\ threads = None /\ codec = None

\* lines 64-98: the loop condition holds and one iteration runs
DeriveIter ==
    /\ LoopCond(regs)
    /\ regs' = DeriveStep(regs)
    /\ UNCHANGED <<server, client, last, calls, threads, codec>>

DeriveNext == DeriveIter

DeriveSpec == DeriveSpecInit /\ [][DeriveNext]_vars

RightHalf(key) == DropFirst(key, 8)

\* C9 as stated: in an executed mixing step the R8a branch uses R8 as it is
\* after the shift register was OR-ed into it, the R8b branch uses R8 as it
\* was before.
C9_R8bUsesR8BeforeOr ==
    regs.mixed
        => /\ regs.r8a_in = BitXor(regs.r8, RightHalf(regs.key_in))
           /\ regs.r8b_in = BitXor(RightHalf(regs.variant), regs.r8_pre)

\* C9 as amended: in an executed mixing step both branches use R8 as it is
\* after the shift register was OR-ed into its low 3 bytes.
C9_R8bUsesR8AfterOr ==
    regs.mixed
        => /\ regs.r8 # regs.r8_pre
           /\ regs.variant = BitXor(regs.key_in, c_mask)
           /\ regs.r8a_in = BitXor(regs.r8, RightHalf(regs.key_in))
           /\ regs.r8b_in = BitXor(RightHalf(regs.variant), regs.r8)

\* a mixing step has run on an R8 that already held counter bits of earlier
\* steps, and its OR changed R8
C9_Witness ==
    /\ regs.mixed
    /\ AnySet(copy_counter(regs.r8_pre))
    /\ regs.r8 # regs.r8_pre
    /\ regs.r8b_in # BitXor(RightHalf(regs.variant), regs.r8_pre)

-----------------------------------------------------------------------------
(* reset_counter on its own *)

MaxPrefix == 2

\* inputs: 0 to MaxPrefix leading bytes, then a 3-byte field with every
\* value of its top 3 bits and several values of its low 21 bits; and three
\* inputs shorter than 3 bytes
CodecInputs ==
    {SubSeq(TestKsn, 1, 8 * n) \o Bits(top, 3) \o Bits(low, 21) :
        n \in 0..MaxPrefix, top \in 0..7, low \in {0, 1, Pow2(20) + 5, Pow2(21) - 1}}
    \cup {SubSeq(TestKsn, 1, 8 * n) : n \in 0..2}

CodecSpecInit ==
    /\ \E d \in CodecInputs : codec = [data |-> d, out |-> None, done |-> FALSE]
    /\ server = None /\ client = None /\ last = None /\ calls = 0
    /\ threads = None /\ regs = None

\* out = reset_counter(data)
ResetCounter ==
    /\ ~codec.done
    /\ codec' = [codec EXCEPT !.out = reset_counter(codec.data), !.done = TRUE]
    /\ UNCHANGED <<server, client, last, calls, threads, regs>>

CodecNext == ResetCounter

CodecSpec == CodecSpecInit /\ [][CodecNext]_vars

\* bit i (from 1) of the final 3-byte field of a byte string
FieldBit(s, i) == s[Len(s) - 24 + i]

\* C10 as stated: for an input of at least 3 bytes the result is the input
\* with only the top 3 bits of its final 3-byte field zeroed.
C10_ResetZeroesTop3Bits ==
    (codec.done /\ ByteLen(codec.data) >= 3)
        => /\ Len(codec.out) = Len(codec.data)
           /\ \A i \in 1..3 : FieldBit(codec.out, i) = 0
           /\ \A i \in 1..Len(codec.data) :
                 i > Len(codec.data) - 21 => codec.out[i] = codec.data[i]
           /\ \A i \in 1..Len(codec.data) :
                 i <= Len(codec.data) - 24 => codec.out[i] = codec.data[i]

\* C10 as amended: for an input of at least 3 bytes the result is the input
\* with only the low 21 bits of its final 3-byte field zeroed; every other
\* bit, the top 3 bits of that field included, is unchanged.
C10_ResetZeroesLow21Bits ==
    (codec.done /\ ByteLen(codec.data) >= 3)
        => /\ Len(codec.out) = Len(codec.data)
           /\ \A i \in 4..24 : FieldBit(codec.out, i) = 0
           /\ \A i \in 1..Len(codec.data) :
                 i <= Len(codec.data) - 21 => codec.out[i] = codec.data[i]

\* reset_counter has run on an input whose final field has bits set both in
\* its top 3 and in its low 21 bits
C10_Witness ==
    /\ codec.done
    /\ ByteLen(codec.data) > 3
    /\ \E i \in 1..3 : FieldBit(codec.data, i) = 1
    /\ \E i \in 4..24 : FieldBit(codec.data, i) = 1
    /\ codec.out # codec.data

=============================================================================
